---- MODULE Spec2Model ----
(***************************************************************************)
(* Model of the LearningTracker resource store (learning_tracker.py):      *)
(* the in-memory resource list, its JSON backing file, and the derived     *)
(* views (search, concept graph) computed from the list.                   *)
(*                                                                         *)
(* Representation of Python values:                                        *)
(*   str            a sequence of symbols, each symbol a TLA+ string       *)
(*                  (one character, or a literal of the program such as    *)
(*                  "in_progress" kept as one symbol)                      *)
(*   int            an integer                                             *)
(*   list of str    [py |-> "list", items |-> sequence of str]             *)
(*   None           [py |-> "None", items |-> <<>>]                        *)
(*   dict           a function from its keys (TLA+ strings) to values      *)
(*   the JSON text  a sequence of tokens <<kind, payload>>, the payload    *)
(*                  being the characters json writes for the token         *)
(*                                                                         *)
(* proc is the process that owns the store: proc.pc is "idle" between      *)
(* calls of a constructed store, "none" before construction, "failed"      *)
(* when construction raised, "writing" inside _save_data and "stopped"     *)
(* when the process ended; the other fields describe the write under way.  *)
(*                                                                         *)
(* peer is the resources list of a second LearningTracker object made on   *)
(* the same db_file (empty while there is none), and returned is the set   *)
(* of resources that add_resource has handed back in the runs with two     *)
(* objects.                                                                *)
(***************************************************************************)
EXTENDS Integers, Sequences, FiniteSets, TLC

VARIABLES resources, file, lastCall, proc, peer, returned

vars == <<resources, file, lastCall, proc, peer, returned>>

\* ---------------------------------------------------------------- bounds
MaxResources == 2
MaxConceptLen == 3
MaxConceptTotal == 4

\* ------------------------------------------------------- python values
None == [py |-> "None", items |-> <<>>]

PyList(s) == [py |-> "list", items |-> s]

Range(s) == {s[i] : i \in 1..Len(s)}

RECURSIVE SeqsUpTo(_, _)
SeqsUpTo(S, n) ==
    IF n = 0 THEN {<<>>}
    ELSE LET shorter == SeqsUpTo(S, n - 1)
         IN  shorter \cup {Append(s, x) : s \in shorter, x \in S}

\* ------------------------------------------------------------ the file
\* os.path.exists(db_file) is file.exists; the text is file.text
NoFile == [exists |-> FALSE, text |-> <<>>]

Digit(d) ==
    CASE d = 0 -> "0" [] d = 1 -> "1" [] d = 2 -> "2" [] d = 3 -> "3"
      [] d = 4 -> "4" [] d = 5 -> "5" [] d = 6 -> "6" [] d = 7 -> "7"
      [] d = 8 -> "8" [] d = 9 -> "9"

DigitValue(c) == CHOOSE d \in 0..9 : Digit(d) = c

\* decimal text of a non-negative int, as json writes it
RECURSIVE IntToText(_)
IntToText(n) ==
    IF n < 10 THEN <<Digit(n)>>
    ELSE Append(IntToText(n \div 10), Digit(n % 10))

RECURSIVE TextToInt(_)
TextToInt(t) ==
    IF Len(t) = 1 THEN DigitValue(t[1])
    ELSE 10 * TextToInt(SubSeq(t, 1, Len(t) - 1)) + DigitValue(t[Len(t)])

\* json string escaping: a quote or a backslash is preceded by a backslash
\* an encoder that escapes the quote but leaves a backslash as it is
RECURSIVE Escape_QuoteOnly(_)
Escape_QuoteOnly(s) ==
    IF s = <<>> THEN <<>>
    ELSE IF Head(s) = "\""
         THEN <<"\\", Head(s)>> \o Escape_QuoteOnly(Tail(s))
         ELSE <<Head(s)>> \o Escape_QuoteOnly(Tail(s))

RECURSIVE Escape(_)
Escape(s) ==
    IF s = <<>> THEN <<>>
    ELSE IF Head(s) \in {"\"", "\\"}
         THEN <<"\\", Head(s)>> \o Escape(Tail(s))
         ELSE <<Head(s)>> \o Escape(Tail(s))

RECURSIVE Unescape(_)
Unescape(s) ==
    IF s = <<>> THEN <<>>
    ELSE IF Head(s) = "\\" /\ Len(s) >= 2
         THEN <<s[2]>> \o Unescape(Tail(Tail(s)))
         ELSE <<Head(s)>> \o Unescape(Tail(s))

Tok(kind, payload) == <<kind, payload>>

RECURSIVE dump_strings(_)
dump_strings(items) ==
    IF items = <<>> THEN <<>>
    ELSE <<Tok("str", Escape(Head(items)))>> \o dump_strings(Tail(items))

\* a tags/concepts value: a JSON array of strings, or null
dump_list(v) ==
    IF v.py = "None" THEN <<Tok("null", <<>>)>>
    ELSE <<Tok("[", <<>>)>> \o dump_strings(v.items) \o <<Tok("]", <<>>)>>

\* the keys of a resource in the order add_resource inserts them
KeyOrder == <<"id", "title", "type", "url", "tags", "concepts", "notes",
              "date_added", "status">>

dump_value(key, v) ==
    IF key = "id" THEN <<Tok("num", IntToText(v))>>
    ELSE IF key \in {"tags", "concepts"} THEN dump_list(v)
    ELSE <<Tok("str", Escape(v))>>

RECURSIVE dump_members(_, _)
dump_members(r, keys) ==
    IF keys = <<>> THEN <<>>
    ELSE LET k == Head(keys)
         IN  (IF k \in DOMAIN r
              THEN <<Tok("key", <<k>>)>> \o dump_value(k, r[k])
              ELSE <<>>)
             \o dump_members(r, Tail(keys))

dump_object(r) ==
    <<Tok("{", <<>>)>> \o dump_members(r, KeyOrder) \o <<Tok("}", <<>>)>>

RECURSIVE dump_objects(_)
dump_objects(rs) ==
    IF rs = <<>> THEN <<>>
    ELSE dump_object(Head(rs)) \o dump_objects(Tail(rs))

json_dump(rs) == <<Tok("[", <<>>)>> \o dump_objects(rs) \o <<Tok("]", <<>>)>>

\* --- parsing: each parse_* returns [val |-> value, rest |-> tokens left]
RECURSIVE parse_strings(_, _)
parse_strings(toks, acc) ==
    IF Head(toks)[1] = "]" THEN [val |-> PyList(acc), rest |-> Tail(toks)]
    ELSE parse_strings(Tail(toks), Append(acc, Unescape(Head(toks)[2])))

parse_value(toks) ==
    LET t == Head(toks)
    IN  CASE t[1] = "num"  -> [val |-> TextToInt(t[2]), rest |-> Tail(toks)]
          [] t[1] = "str"  -> [val |-> Unescape(t[2]), rest |-> Tail(toks)]
          [] t[1] = "null" -> [val |-> None, rest |-> Tail(toks)]
          [] t[1] = "["    -> parse_strings(Tail(toks), <<>>)

RECURSIVE parse_members(_, _)
parse_members(toks, obj) ==
    IF Head(toks)[1] = "}" THEN [val |-> obj, rest |-> Tail(toks)]
    ELSE LET k == Head(toks)[2][1]
             v == parse_value(Tail(toks))
         IN  parse_members(v.rest,
                 [x \in DOMAIN obj \cup {k} |-> IF x = k THEN v.val ELSE obj[x]])

RECURSIVE parse_objects(_, _)
parse_objects(toks, acc) ==
    IF Head(toks)[1] = "]" THEN acc
    ELSE LET o == parse_members(Tail(toks), <<>>)
         IN  parse_objects(o.rest, Append(acc, o.val))

json_load(text) == parse_objects(Tail(text), <<>>)

\* whether json.load accepts the text (it raises JSONDecodeError otherwise);
\* the texts of the model are arrays of flat objects and their corruptions
RECURSIVE valid_strings(_)
valid_strings(toks) ==
    IF toks = <<>> THEN [ok |-> FALSE, rest |-> <<>>]
    ELSE IF Head(toks)[1] = "]" THEN [ok |-> TRUE, rest |-> Tail(toks)]
    ELSE IF Head(toks)[1] = "str" THEN valid_strings(Tail(toks))
    ELSE [ok |-> FALSE, rest |-> <<>>]

valid_value(toks) ==
    IF toks = <<>> THEN [ok |-> FALSE, rest |-> <<>>]
    ELSE IF Head(toks)[1] \in {"num", "str", "null"}
         THEN [ok |-> TRUE, rest |-> Tail(toks)]
    ELSE IF Head(toks)[1] = "[" THEN valid_strings(Tail(toks))
    ELSE [ok |-> FALSE, rest |-> <<>>]

RECURSIVE valid_members(_)
valid_members(toks) ==
    IF toks = <<>> THEN [ok |-> FALSE, rest |-> <<>>]
    ELSE IF Head(toks)[1] = "}" THEN [ok |-> TRUE, rest |-> Tail(toks)]
    ELSE IF Head(toks)[1] = "key"
         THEN LET v == valid_value(Tail(toks))
              IN  IF v.ok THEN valid_members(v.rest) ELSE v
    ELSE [ok |-> FALSE, rest |-> <<>>]

RECURSIVE valid_objects(_)
valid_objects(toks) ==
    IF toks = <<>> THEN FALSE
    ELSE IF Head(toks)[1] = "]" THEN Tail(toks) = <<>>
    ELSE IF Head(toks)[1] = "{"
         THEN LET o == valid_members(Tail(toks))
              IN  o.ok /\ valid_objects(o.rest)
    ELSE FALSE

json_valid(text) ==
    /\ text # <<>>
    /\ Head(text)[1] = "["
    /\ valid_objects(Tail(text))

\* ------------------------------------------------------------ the store
_load_data(f) == IF f.exists THEN json_load(f.text) ELSE <<>>

_save_data(rs) == [exists |-> TRUE, text |-> json_dump(rs)]

\* datetime.now().strftime(...): the model keeps the seconds field, two digits
strftime(now) == <<Digit(now \div 10), Digit(now % 10)>>

in_progress == <<"in_progress">>
completed == <<"completed">>
archived == <<"archived">>

\* add_resource numbering from the count before the append, without the + 1
NewResource_IdFromCount(rs, title, resource_type, url, tags, notes, concepts, now) ==
    [id         |-> Len(rs),
     title      |-> title,
     type       |-> resource_type,
     url        |-> url,
     tags       |-> IF tags = None THEN PyList(<<>>) ELSE tags,
     concepts   |-> IF concepts = None THEN PyList(<<>>) ELSE concepts,
     notes      |-> notes,
     date_added |-> strftime(now),
     status     |-> in_progress]

\* add_resource without the two  if ... is None  blocks
NewResource_KeepsNone(rs, title, resource_type, url, tags, notes, concepts, now) ==
    [id         |-> Len(rs) + 1,
     title      |-> title,
     type       |-> resource_type,
     url        |-> url,
     tags       |-> tags,
     concepts   |-> concepts,
     notes      |-> notes,
     date_added |-> strftime(now),
     status     |-> in_progress]

NewResource(rs, title, resource_type, url, tags, notes, concepts, now) ==
    [id         |-> Len(rs) + 1,
     title      |-> title,
     type       |-> resource_type,
     url        |-> url,
     tags       |-> IF tags = None THEN PyList(<<>>) ELSE tags,
     concepts   |-> IF concepts = None THEN PyList(<<>>) ELSE concepts,
     notes      |-> notes,
     date_added |-> strftime(now),
     status     |-> in_progress]

\* the process between two calls of its store
Idle == [pc |-> "idle", todo |-> <<>>, before |-> NoFile, after |-> NoFile,
         ret |-> <<>>]

\* what the last call was and what it gave back: the operation, its id,
\* status and query arguments (0 / <<>> when it has none), whether it reported
\* success, the resources it returned, whether it wrote the backing file, and
\* whether it is an update_status or a read-only call that repeats the call
\* before it
ReadOps == {"list_resources", "search", "build_knowledge_graph",
            "get_related_concepts", "get_statistics"}

Call(op, id, status, query, ok, res, wrote) ==
    [op |-> op, id |-> id, status |-> status, query |-> query, ok |-> ok,
     res |-> res, wrote |-> wrote,
     again |-> /\ op \in {"update_status"} \cup ReadOps
               /\ lastCall.op = op
               /\ lastCall.id = id
               /\ lastCall.status = status
               /\ lastCall.query = query]

\* now is the second that datetime.now() reads during the call
add_resource(title, resource_type, url, tags, notes, concepts, now) ==
    LET resource == NewResource(resources, title, resource_type, url, tags,
                                notes, concepts, now)
    IN  /\ proc.pc = "idle"
        /\ Len(resources) < MaxResources
        /\ resources' = Append(resources, resource)
        /\ file' = _save_data(resources')
        /\ lastCall' = Call("add_resource", 0, <<>>, <<>>, TRUE, <<resource>>,
                            TRUE)
        /\ UNCHANGED <<proc, peer, returned>>

\* index of the first resource whose id is resource_id, 0 when there is none
FirstWithId(rs, resource_id) ==
    IF \E i \in 1..Len(rs) : rs[i]["id"] = resource_id
    THEN CHOOSE i \in 1..Len(rs) :
            /\ rs[i]["id"] = resource_id
            /\ \A j \in 1..(i - 1) : rs[j]["id"] # resource_id
    ELSE 0

\* a loop that keeps assigning after the match: no return inside the if
SetStatus_FromMatchOn(rs, i, status) ==
    [k \in 1..Len(rs) |->
        IF k >= i
        THEN [x \in DOMAIN rs[k] \cup {"status"} |->
                 IF x = "status" THEN status ELSE rs[k][x]]
        ELSE rs[k]]

SetStatus(rs, i, status) ==
    [rs EXCEPT ![i] = [k \in DOMAIN rs[i] \cup {"status"} |->
                          IF k = "status" THEN status ELSE rs[i][k]]]

\* update_status without the _save_data() call
update_status_NoSave(resource_id, status) ==
    LET i == FirstWithId(resources, resource_id)
    IN  /\ proc.pc = "idle"
        /\ UNCHANGED <<proc, peer, returned>>
        /\ IF i # 0
           THEN /\ resources' = SetStatus(resources, i, status)
                /\ file' = file
                /\ lastCall' = Call("update_status", resource_id, status, <<>>,
                                    TRUE, <<>>, FALSE)
           ELSE /\ UNCHANGED <<resources, file>>
                /\ lastCall' = Call("update_status", resource_id, status, <<>>,
                                    FALSE, <<>>, FALSE)

\* update_status reporting failure when the resource already has the status
update_status_FailsIfSame(resource_id, status) ==
    LET i == FirstWithId(resources, resource_id)
    IN  /\ proc.pc = "idle"
        /\ UNCHANGED <<proc, peer, returned>>
        /\ IF i # 0 /\ resources[i]["status"] # status
           THEN /\ resources' = SetStatus(resources, i, status)
                /\ file' = _save_data(resources')
                /\ lastCall' = Call("update_status", resource_id, status, <<>>,
                                    TRUE, <<>>, TRUE)
           ELSE /\ UNCHANGED <<resources, file>>
                /\ lastCall' = Call("update_status", resource_id, status, <<>>,
                                    FALSE, <<>>, FALSE)

\* update_status with _save_data() after the loop, so also when no id matches
update_status_SavesAlways(resource_id, status) ==
    LET i == FirstWithId(resources, resource_id)
    IN  /\ proc.pc = "idle"
        /\ UNCHANGED <<proc, peer, returned>>
        /\ IF i # 0
           THEN /\ resources' = SetStatus(resources, i, status)
                /\ lastCall' = Call("update_status", resource_id, status, <<>>,
                                    TRUE, <<>>, TRUE)
           ELSE /\ UNCHANGED resources
                /\ lastCall' = Call("update_status", resource_id, status, <<>>,
                                    FALSE, <<>>, TRUE)
        /\ file' = _save_data(resources')

update_status(resource_id, status) ==
    LET i == FirstWithId(resources, resource_id)
    IN  /\ proc.pc = "idle"
        /\ UNCHANGED <<proc, peer, returned>>
        /\ IF i # 0
           THEN /\ resources' = SetStatus(resources, i, status)
                /\ file' = _save_data(resources')
                /\ lastCall' = Call("update_status", resource_id, status, <<>>,
                                    TRUE, <<>>, TRUE)
           ELSE /\ UNCHANGED <<resources, file>>
                /\ lastCall' = Call("update_status", resource_id, status, <<>>,
                                    FALSE, <<>>, FALSE)

\* ------------------------------------------- a mutating call in steps
\* The same two handlers with _save_data split at the points where the
\* process can stop: open(db_file, 'w') empties the file, json.dump and the
\* closing of the file bring the text to the disk piece by piece.
save_begin(rs, ret) ==
    /\ file' = [exists |-> TRUE, text |-> <<>>]
    /\ proc' = [pc |-> "writing", todo |-> json_dump(rs), before |-> file,
                after |-> _save_data(rs), ret |-> <<ret>>]

add_resource_begin(title, resource_type, url, tags, notes, concepts, now) ==
    LET resource == NewResource(resources, title, resource_type, url, tags,
                                notes, concepts, now)
    IN  /\ proc.pc = "idle"
        /\ Len(resources) < MaxResources
        /\ resources' = Append(resources, resource)
        /\ save_begin(resources', Call("add_resource", 0, <<>>, <<>>, TRUE,
                                       <<resource>>, TRUE))
        /\ UNCHANGED <<lastCall, peer, returned>>

update_status_begin(resource_id, status) ==
    LET i == FirstWithId(resources, resource_id)
    IN  /\ proc.pc = "idle"
        /\ i # 0
        /\ resources' = SetStatus(resources, i, status)
        /\ save_begin(resources', Call("update_status", resource_id, status,
                                       <<>>, TRUE, <<>>, TRUE))
        /\ UNCHANGED <<lastCall, peer, returned>>

\* some more of the text reaches the file
write_chunk ==
    /\ proc.pc = "writing"
    /\ \E n \in 1..Len(proc.todo) :
          /\ file' = [file EXCEPT !.text = @ \o SubSeq(proc.todo, 1, n)]
          /\ proc' = [proc EXCEPT
                         !.todo = SubSeq(proc.todo, n + 1, Len(proc.todo))]
    /\ UNCHANGED <<resources, lastCall, peer, returned>>

\* the with block is left and the handler returns
save_return ==
    /\ proc.pc = "writing"
    /\ proc.todo = <<>>
    /\ lastCall' = proc.ret[1]
    /\ proc' = Idle
    /\ UNCHANGED <<resources, file, peer, returned>>

\* the process ends (kill, power loss): memory is gone, the file stays as it
\* is; before and after keep the file as it was before the interrupted call
\* and as the call would have left it
Stop ==
    /\ proc.pc \in {"idle", "writing"}
    /\ proc' = IF proc.pc = "writing"
               THEN [proc EXCEPT !.pc = "stopped", !.todo = <<>>, !.ret = <<>>]
               ELSE [Idle EXCEPT !.pc = "stopped", !.before = file,
                                 !.after = file]
    /\ resources' = <<>>
    /\ UNCHANGED <<file, lastCall, peer, returned>>

\* a constructor that extends the list it has with the list it loads
Reload_Extends ==
    /\ proc.pc # "writing"
    /\ resources' = resources \o _load_data(file)
    /\ proc' = Idle
    /\ lastCall' = Call("__init__", 0, <<>>, <<>>, TRUE, <<>>, FALSE)
    /\ UNCHANGED <<file, peer, returned>>

\* a constructor that catches the decode error and starts empty
Reload_SwallowsError ==
    /\ proc.pc # "writing"
    /\ resources' = IF file.exists /\ ~json_valid(file.text) THEN <<>>
                    ELSE _load_data(file)
    /\ proc' = Idle
    /\ lastCall' = Call("__init__", 0, <<>>, <<>>, TRUE, <<>>, FALSE)
    /\ UNCHANGED <<file, peer, returned>>

\* LearningTracker(db_file) constructed (again) on the file, by the running
\* process or by a new one; when json.load raises, __init__ raises and there
\* is no store: proc.pc is "failed" and resources is left empty
Reload ==
    /\ proc.pc # "writing"
    /\ IF file.exists /\ ~json_valid(file.text)
       THEN /\ resources' = <<>>
            /\ proc' = [Idle EXCEPT !.pc = "failed"]
            /\ lastCall' = Call("__init__", 0, <<>>, <<>>, FALSE, <<>>, FALSE)
       ELSE /\ resources' = _load_data(file)
            /\ proc' = Idle
            /\ lastCall' = Call("__init__", 0, <<>>, <<>>, TRUE, <<>>, FALSE)
    /\ UNCHANGED <<file, peer, returned>>

\* ------------------------------------------------------------- search
UpperCase == <<"A", "B", "C", "D", "E", "F", "G", "H", "I", "J", "K", "L", "M",
               "N", "O", "P", "Q", "R", "S", "T", "U", "V", "W", "X", "Y", "Z">>
LowerCase == <<"a", "b", "c", "d", "e", "f", "g", "h", "i", "j", "k", "l", "m",
               "n", "o", "p", "q", "r", "s", "t", "u", "v", "w", "x", "y", "z">>

\* str.lower(): every upper-case letter becomes its lower-case letter
lower(s) ==
    [i \in 1..Len(s) |->
        IF \E n \in 1..26 : UpperCase[n] = s[i]
        THEN LowerCase[CHOOSE n \in 1..26 : UpperCase[n] = s[i]]
        ELSE s[i]]

\* python's  q in s  on two strings
Contains(s, q) ==
    \E i \in 0..(Len(s) - Len(q)) : SubSeq(s, i + 1, i + Len(q)) = q

\* r.get(key, []) for the tags and concepts lists
get_list(r, key) == IF key \in DOMAIN r THEN r[key].items ELSE <<>>

\* the condition without the notes line
search_match_NoNotes(resource, query_lower) ==
    \/ Contains(lower(resource["title"]), query_lower)
    \/ \E i \in 1..Len(get_list(resource, "tags")) :
          Contains(lower(get_list(resource, "tags")[i]), query_lower)
    \/ \E i \in 1..Len(get_list(resource, "concepts")) :
          Contains(lower(get_list(resource, "concepts")[i]), query_lower)

\* the condition of the if in search's loop
search_match(resource, query_lower) ==
    \/ Contains(lower(resource["title"]), query_lower)
    \/ Contains(lower(resource["notes"]), query_lower)
    \/ \E i \in 1..Len(get_list(resource, "tags")) :
          Contains(lower(get_list(resource, "tags")[i]), query_lower)
    \/ \E i \in 1..Len(get_list(resource, "concepts")) :
          Contains(lower(get_list(resource, "concepts")[i]), query_lower)

RECURSIVE search_loop(_, _, _)
search_loop(rs, query_lower, results) ==
    IF rs = <<>> THEN results
    ELSE search_loop(Tail(rs), query_lower,
                     IF search_match(Head(rs), query_lower)
                     THEN Append(results, Head(rs))
                     ELSE results)

\* search without the query.lower() line
search_result_QueryAsIs(rs, query) == search_loop(rs, query, <<>>)

search_result(rs, query) == search_loop(rs, lower(query), <<>>)

search(query) ==
    /\ proc.pc = "idle"
    /\ lastCall' = Call("search", 0, <<>>, query, TRUE,
                        search_result(resources, query), FALSE)
    /\ UNCHANGED <<resources, file, proc, peer, returned>>

\* ------------------------------------------------------------ listing
\* an optional str argument: None, or the str wrapped like a list
PyStr(s) == [py |-> "str", items |-> s]

\* python's truth value of an optional str: None and "" are false
truthy(v) == v.py # "None" /\ v.items # <<>>

\* r.get("status"): None when the key is missing
get_status(r) == IF "status" \in DOMAIN r THEN PyStr(r["status"]) ELSE None

\* a tag filter that tests each tag for the substring, as search does
has_tag_Substring(r, tag) ==
    \E i \in 1..Len(get_list(r, "tags")) :
        Contains(lower(get_list(r, "tags")[i]), lower(tag.items))

\* tag.lower() in [t.lower() for t in r.get("tags", [])]
has_tag(r, tag) ==
    \E i \in 1..Len(get_list(r, "tags")) :
        lower(get_list(r, "tags")[i]) = lower(tag.items)

list_result(rs, status, tag) ==
    LET by_status == IF truthy(status)
                     THEN SelectSeq(rs, LAMBDA r : get_status(r) = status)
                     ELSE rs
    IN  IF truthy(tag)
        THEN SelectSeq(by_status, LAMBDA r : has_tag(r, tag))
        ELSE by_status

\* a listing that assigns the filtered list to self.resources
list_resources_Assigns(status, tag) ==
    /\ proc.pc = "idle"
    /\ resources' = list_result(resources, status, tag)
    /\ lastCall' = Call("list_resources", 0, <<>>, <<status, tag>>, TRUE,
                        resources', FALSE)
    /\ UNCHANGED <<file, proc, peer, returned>>

list_resources(status, tag) ==
    /\ proc.pc = "idle"
    /\ lastCall' = Call("list_resources", 0, <<>>, <<status, tag>>, TRUE,
                        list_result(resources, status, tag), FALSE)
    /\ UNCHANGED <<resources, file, proc, peer, returned>>

\* --------------------------------------------------------- statistics
\* resource.get(key, "unknown") for the status and type strings
get_str(r, key) == IF key \in DOMAIN r THEN r[key] ELSE <<"unknown">>

\* counter[k] += 1 on a defaultdict(int)
counter_inc(counter, k) ==
    [x \in DOMAIN counter \cup {k} |->
        IF x = k THEN (IF k \in DOMAIN counter THEN counter[k] ELSE 0) + 1
        ELSE counter[x]]

\* the loop over self.resources; the counters start as empty dicts
RECURSIVE stats_loop(_, _)
stats_loop(acc, rs) ==
    IF rs = <<>> THEN acc
    ELSE stats_loop(
             [by_status    |-> counter_inc(acc.by_status,
                                           get_str(Head(rs), "status")),
              by_type      |-> counter_inc(acc.by_type,
                                           get_str(Head(rs), "type")),
              all_concepts |-> acc.all_concepts
                                 \cup Range(get_list(Head(rs), "concepts")),
              all_tags     |-> acc.all_tags
                                 \cup Range(get_list(Head(rs), "tags"))],
             Tail(rs))

StatsStart == [by_status |-> <<>>, by_type |-> <<>>, all_concepts |-> {},
               all_tags |-> {}]

\* statistics that count the concept entries instead of the distinct concepts
statistics_CountsEntries(rs) ==
    LET acc == stats_loop(StatsStart, rs)
        entries[k \in 0..Len(rs)] ==
            IF k = 0 THEN 0
            ELSE entries[k - 1] + Len(get_list(rs[k], "concepts"))
    IN  [total_resources |-> Len(rs),
         by_status       |-> acc.by_status,
         by_type         |-> acc.by_type,
         unique_concepts |-> entries[Len(rs)],
         unique_tags     |-> Cardinality(acc.all_tags)]

statistics(rs) ==
    LET acc == stats_loop(StatsStart, rs)
    IN  [total_resources |-> Len(rs),
         by_status       |-> acc.by_status,
         by_type         |-> acc.by_type,
         unique_concepts |-> Cardinality(acc.all_concepts),
         unique_tags     |-> Cardinality(acc.all_tags)]

get_statistics ==
    /\ proc.pc = "idle"
    /\ lastCall' = Call("get_statistics", 0, <<>>, <<>>, TRUE,
                        <<statistics(resources)>>, FALSE)
    /\ UNCHANGED <<resources, file, proc, peer, returned>>

\* ------------------------------------------------------ concept graph
\* the graph is a function from its keys to sets; no key is the empty dict
EmptyGraph == <<>>

\* graph.get(k, [])
graph_get(graph, k) == IF k \in DOMAIN graph THEN graph[k] ELSE {}

\* graph[a].add(b) on a defaultdict(set)
graph_add(graph, a, b) ==
    [k \in DOMAIN graph \cup {a} |->
        IF k = a THEN graph_get(graph, a) \cup {b} ELSE graph[k]]

\* the inner loop's body with only its first add
connect_OneWay(graph, concept1, concept2) ==
    graph_add(graph, concept1, concept2)

\* the body of the inner loop
connect(graph, concept1, concept2) ==
    graph_add(graph_add(graph, concept1, concept2), concept2, concept1)

\* an inner loop that pairs concept1 with its successor only
connect_rest_NextOnly(graph, concepts, i, j) ==
    IF j > Len(concepts) THEN graph
    ELSE connect(graph, concepts[i], concepts[j])

\* for concept2 in concepts[i+1:], j being the position of concept2
RECURSIVE connect_rest(_, _, _, _)
connect_rest(graph, concepts, i, j) ==
    IF j > Len(concepts) THEN graph
    ELSE connect_rest(connect(graph, concepts[i], concepts[j]), concepts, i,
                      j + 1)

\* an outer loop that reads graph[concept1], which makes the defaultdict
\* create the key, before the inner loop
RECURSIVE connect_all_TouchesKey(_, _, _)
connect_all_TouchesKey(graph, concepts, i) ==
    IF i > Len(concepts) THEN graph
    ELSE LET touched ==
                 [k \in DOMAIN graph \cup {concepts[i]} |-> graph_get(graph, k)]
         IN  connect_all_TouchesKey(connect_rest(touched, concepts, i, i + 1),
                                    concepts, i + 1)

\* for i, concept1 in enumerate(concepts)
RECURSIVE connect_all(_, _, _)
connect_all(graph, concepts, i) ==
    IF i > Len(concepts) THEN graph
    ELSE connect_all(connect_rest(graph, concepts, i, i + 1), concepts, i + 1)

\* for resource in self.resources
RECURSIVE graph_over(_, _)
graph_over(graph, rs) ==
    IF rs = <<>> THEN graph
    ELSE graph_over(connect_all(graph, get_list(Head(rs), "concepts"), 1),
                    Tail(rs))

build_knowledge_graph(rs) == graph_over(EmptyGraph, rs)

\* list(graph.get(concept, [])): the elements of the returned list; their
\* order is the iteration order of a set, which the program does not fix
get_related_concepts(rs, concept) ==
    graph_get(build_knowledge_graph(rs), concept)

\* the store constructed on an absent backing file
Init ==
    /\ file = NoFile
    /\ resources = _load_data(file)
    /\ proc = Idle
    /\ lastCall = [op |-> "__init__", id |-> 0, status |-> <<>>,
                   query |-> <<>>, ok |-> TRUE, res |-> <<>>, wrote |-> FALSE,
                   again |-> FALSE]
    /\ peer = <<>>
    /\ returned = {}

\* ------------------------------------------- inputs of the store runs
Titles == {<<"A">>}
Types == {<<"article">>}
Urls == {<<>>}
TagArgs == {None, PyList(<<<<"A", "\"">>, <<"b">>>>)}
ConceptArgs == {None, PyList(<<<<"x">>, <<"y">>>>)}
NoteArgs == {<<"\\", "a">>}
Times == {7, 59}
StatusArgs == {completed, <<"done">>}
IdArgs == 1..(MaxResources + 1)

Add ==
    \E title \in Titles, resource_type \in Types, url \in Urls,
       tags \in TagArgs, notes \in NoteArgs, concepts \in ConceptArgs,
       now \in Times :
        add_resource(title, resource_type, url, tags, notes, concepts, now)

UpdateStatus ==
    \E resource_id \in IdArgs, status \in StatusArgs :
        update_status(resource_id, status)

Next == Add \/ UpdateStatus \/ Reload

Spec == Init /\ [][Next]_vars

\* the two graph calls as steps of the store's user
BuildGraph ==
    /\ proc.pc = "idle"
    /\ lastCall' = Call("build_knowledge_graph", 0, <<>>, <<>>, TRUE,
                        <<build_knowledge_graph(resources)>>, FALSE)
    /\ UNCHANGED <<resources, file, proc, peer, returned>>

RelatedConcepts(concept) ==
    /\ proc.pc = "idle"
    /\ lastCall' = Call("get_related_concepts", 0, <<>>, concept, TRUE,
                        <<get_related_concepts(resources, concept)>>, FALSE)
    /\ UNCHANGED <<resources, file, proc, peer, returned>>

\* ------------------------------------------- inputs of the graph runs
ConceptNames == {<<"x">>, <<"y">>, <<"z">>}
GraphConceptArgs ==
    {None} \cup {PyList(s) : s \in SeqsUpTo(ConceptNames, MaxConceptLen)}

\* the number of concept entries the store holds
RECURSIVE ConceptTotal(_)
ConceptTotal(rs) ==
    IF rs = <<>> THEN 0
    ELSE Len(get_list(Head(rs), "concepts")) + ConceptTotal(Tail(rs))

AddConcepts ==
    \E concepts \in GraphConceptArgs :
        /\ ConceptTotal(resources) + Len(concepts.items) <= MaxConceptTotal
        /\ add_resource(<<"A">>, <<"article">>, <<>>, None, <<>>, concepts, 7)

NextGraph == AddConcepts \/ Reload

SpecGraph == Init /\ [][NextGraph]_vars

\* ------------------------------------------ inputs of the search runs
SearchTitles == {<<"A", "b">>, <<"c">>}
SearchUrls == {<<"u">>}
SearchTagArgs == {None, PyList(<<<<"k">>, <<"T">>>>)}
SearchConceptArgs == {PyList(<<<<"X", "y">>>>)}
SearchNoteArgs == {<<>>, <<"n", "B">>}
Queries == {<<>>, <<"a", "B">>, <<"b">>, <<"N">>, <<"t">>, <<"x", "Y">>,
            <<"u">>, <<"1">>, <<"article">>, <<"in_progress">>, <<"b", "a">>}

AddSearchable ==
    \E title \in SearchTitles, url \in SearchUrls, tags \in SearchTagArgs,
       notes \in SearchNoteArgs, concepts \in SearchConceptArgs :
        add_resource(title, <<"article">>, url, tags, notes, concepts, 7)

Search == \E query \in Queries : search(query)

NextSearch == AddSearchable \/ Search

SpecSearch == Init /\ [][NextSearch]_vars

\* ------------------------------------------- inputs of the view runs
ViewTagArgs == {None, PyList(<<<<"A", "b">>, <<"c">>>>)}
ViewConceptArgs == {None, PyList(<<<<"x">>, <<"y">>>>)}
StatusFilters == {None, PyStr(<<>>), PyStr(completed), PyStr(archived)}
TagFilters == {None, PyStr(<<>>), PyStr(<<"a", "B">>), PyStr(<<"a">>)}

AddViewed ==
    \E tags \in ViewTagArgs, concepts \in ViewConceptArgs :
        add_resource(<<"A">>, <<"article">>, <<>>, tags, <<>>, concepts, 7)

CompleteOne == \E resource_id \in 1..MaxResources :
                   update_status(resource_id, completed)

List ==
    \E status \in StatusFilters, tag \in TagFilters :
        list_resources(status, tag)

SearchViewed == \E query \in {<<"a">>, <<"Z">>} : search(query)

Related == \E concept \in {<<"x">>, <<"z">>} : RelatedConcepts(concept)

NextViews ==
    \/ AddViewed
    \/ CompleteOne
    \/ List
    \/ SearchViewed
    \/ BuildGraph
    \/ Related
    \/ get_statistics

SpecViews == Init /\ [][NextViews]_vars

\* --------------------------------------- inputs of the statistics runs
\* a backing file written by another tool: one record without status and type
LegacyFile ==
    [exists |-> TRUE,
     text |-> <<Tok("[", <<>>), Tok("{", <<>>),
                Tok("key", <<"id">>), Tok("num", <<"1">>),
                Tok("key", <<"title">>), Tok("str", <<"A">>),
                Tok("key", <<"tags">>), Tok("[", <<>>), Tok("str", <<"c">>),
                Tok("]", <<>>),
                Tok("key", <<"concepts">>), Tok("[", <<>>),
                Tok("str", <<"x">>), Tok("]", <<>>),
                Tok("key", <<"notes">>), Tok("str", <<>>),
                Tok("}", <<>>), Tok("]", <<>>)>>]

StatsTypes == {<<"article">>, <<"video">>}

\* the store constructed on an absent file or on the legacy file
InitStats ==
    /\ file \in {NoFile, LegacyFile}
    /\ resources = _load_data(file)
    /\ proc = Idle
    /\ lastCall = [op |-> "__init__", id |-> 0, status |-> <<>>,
                   query |-> <<>>, ok |-> TRUE, res |-> <<>>, wrote |-> FALSE,
                   again |-> FALSE]
    /\ peer = <<>>
    /\ returned = {}

AddCounted ==
    \E resource_type \in StatsTypes, tags \in ViewTagArgs,
       concepts \in ViewConceptArgs :
        add_resource(<<"A">>, resource_type, <<>>, tags, <<>>, concepts, 7)

NextStats == AddCounted \/ CompleteOne \/ get_statistics

SpecStats == InitStats /\ [][NextStats]_vars

\* ------------------------------------ inputs of the construction runs
\* backing files that json.load rejects: an empty file, a text cut off inside
\* a record, a text cut off before the closing bracket, a stray closing brace
EmptyFile == [exists |-> TRUE, text |-> <<>>]
CutInRecord == [exists |-> TRUE, text |-> SubSeq(LegacyFile.text, 1, 7)]
CutBeforeEnd ==
    [exists |-> TRUE,
     text |-> SubSeq(LegacyFile.text, 1, Len(LegacyFile.text) - 1)]
StrayBrace ==
    [exists |-> TRUE, text |-> <<Tok("[", <<>>), Tok("}", <<>>), Tok("]", <<>>)>>]
CorruptFiles == {EmptyFile, CutInRecord, CutBeforeEnd, StrayBrace}

\* before LearningTracker(db_file) is called: no store yet
InitConstruct ==
    /\ file \in {NoFile, LegacyFile} \cup CorruptFiles
    /\ resources = <<>>
    /\ proc = [Idle EXCEPT !.pc = "none"]
    /\ lastCall = [op |-> "none", id |-> 0, status |-> <<>>,
                   query |-> <<>>, ok |-> TRUE, res |-> <<>>, wrote |-> FALSE,
                   again |-> FALSE]
    /\ peer = <<>>
    /\ returned = {}

NextConstruct == Reload \/ AddViewed \/ CompleteOne

SpecConstruct == InitConstruct /\ [][NextConstruct]_vars

\* ------------------------------------------- inputs of the crash runs
AddBegin ==
    \E tags \in ViewTagArgs :
        add_resource_begin(<<"A">>, <<"article">>, <<>>, tags, <<>>, None, 7)

CompleteBegin ==
    \E resource_id \in 1..MaxResources :
        update_status_begin(resource_id, completed)

NextCrash ==
    \/ AddBegin
    \/ CompleteBegin
    \/ write_chunk
    \/ save_return
    \/ Stop
    \/ Reload

SpecCrash == Init /\ [][NextCrash]_vars

\* ---------------------------------------- two objects on one db_file
\* Two LearningTracker objects made on the same db_file: tracker 1 keeps its
\* list in resources, tracker 2 in peer.  Each call below is the handler of
\* the one-object runs applied to the list of the tracker that is called;
\* the file is the one both write.
Trackers == {1, 2}

\* self.resources of tracker t
tracker(t) == IF t = 1 THEN resources ELSE peer

add_resource_by(t, title, resource_type, url, tags, notes, concepts, now) ==
    LET rs == tracker(t)
        resource == NewResource(rs, title, resource_type, url, tags, notes,
                                concepts, now)
        after == Append(rs, resource)
    IN  /\ proc.pc = "idle"
        /\ Len(rs) < MaxResources
        /\ resources' = IF t = 1 THEN after ELSE resources
        /\ peer' = IF t = 2 THEN after ELSE peer
        /\ file' = _save_data(after)
        /\ returned' = returned \cup {resource}
        /\ lastCall' = Call("add_resource", 0, <<>>, <<>>, TRUE, <<resource>>,
                            TRUE)
        /\ UNCHANGED proc

update_status_by(t, resource_id, status) ==
    LET rs == tracker(t)
        i == FirstWithId(rs, resource_id)
        after == SetStatus(rs, i, status)
    IN  /\ proc.pc = "idle"
        /\ UNCHANGED <<proc, returned>>
        /\ IF i # 0
           THEN /\ resources' = IF t = 1 THEN after ELSE resources
                /\ peer' = IF t = 2 THEN after ELSE peer
                /\ file' = _save_data(after)
                /\ lastCall' = Call("update_status", resource_id, status, <<>>,
                                    TRUE, <<>>, TRUE)
           ELSE /\ UNCHANGED <<resources, peer, file>>
                /\ lastCall' = Call("update_status", resource_id, status, <<>>,
                                    FALSE, <<>>, FALSE)

\* inputs of the runs with two objects
PeerTitles == {<<"A">>, <<"B">>}
PeerIds == 1..MaxResources

AddBy ==
    \E t \in Trackers, title \in PeerTitles :
        add_resource_by(t, title, <<"article">>, <<>>, None, <<>>, None, 7)

CompleteBy ==
    \E t \in Trackers, resource_id \in PeerIds :
        update_status_by(t, resource_id, completed)

NextPeers == AddBy \/ CompleteBy

\* both objects constructed while the file is absent
SpecPeers == Init /\ [][NextPeers]_vars

\* ------------------------------------ the dashboard's Add Resource form
Whitespace == {" ", "\t", "\n"}

\* str.split(sep) for a separator of one character
RECURSIVE split(_, _)
split(s, sep) ==
    IF \E i \in 1..Len(s) : s[i] = sep
    THEN LET i == CHOOSE n \in 1..Len(s) :
                     /\ s[n] = sep
                     /\ \A j \in 1..(n - 1) : s[j] # sep
         IN  <<SubSeq(s, 1, i - 1)>> \o split(SubSeq(s, i + 1, Len(s)), sep)
    ELSE <<s>>

\* str.strip()
strip(s) ==
    LET Solid == {i \in 1..Len(s) : s[i] \notin Whitespace}
    IN  IF Solid = {} THEN <<>>
        ELSE SubSeq(s, CHOOSE i \in Solid : \A j \in Solid : i <= j,
                       CHOOSE i \in Solid : \A j \in Solid : i >= j)

\* [t.strip() for t in text.split(",") if t.strip()] if text else []
comma_list(text) ==
    IF text # <<>>
    THEN LET parts == split(text, ",")
         IN  PyList(SelectSeq([k \in 1..Len(parts) |-> strip(parts[k])],
                              LAMBDA t : t # <<>>))
    ELSE PyList(<<>>)

\* tracker.update_status(len(tracker.resources), status) on the list rs
submit_status(rs, status) ==
    LET i == FirstWithId(rs, Len(rs))
    IN  IF i # 0 THEN SetStatus(rs, i, status) ELSE rs

\* the submitted form: with a title, add_resource and then update_status,
\* each saving the list (the second save only when an id matches, and then it
\* writes the list the first save wrote but for the status); without a title
\* an error is shown and nothing is called
submit_add(title, resource_type, url, tags_input, concepts_input, status, notes, now) ==
    LET resource == NewResource(resources, title, resource_type, url,
                                comma_list(tags_input), notes,
                                comma_list(concepts_input), now)
        added == Append(resources, resource)
    IN  /\ proc.pc = "idle"
        /\ UNCHANGED <<proc, peer, returned>>
        /\ IF title # <<>>
           THEN /\ Len(resources) < MaxResources
                /\ resources' = submit_status(added, status)
                /\ file' = _save_data(resources')
                /\ lastCall' = Call("submit_add", Len(added), status, <<>>,
                                    TRUE, <<>>, TRUE)
           ELSE /\ UNCHANGED <<resources, file>>
                /\ lastCall' = Call("submit_add", 0, status, <<>>, FALSE,
                                    <<>>, FALSE)

\* inputs of the dashboard runs
FormTitles == {<<>>, <<"A">>}
FormTagInputs == {<<>>, <<"a", ",", " ", "b", ",">>}
FormConceptInputs == {<<>>, <<" ", "x", " ", "y", ",", " ", ",", "z">>}
FormStatuses == {in_progress, completed, archived}

\* a backing file whose one record has id 2 (the first record of a list of
\* two was taken out of the file by hand)
ShiftedFile ==
    _save_data(<<[NewResource(<<>>, <<"A">>, <<"article">>, <<>>, None, <<>>,
                              None, 7) EXCEPT !["id"] = 2]>>)

\* the dashboard started on an absent file, the legacy file or the shifted one
InitDashboard ==
    /\ file \in {NoFile, LegacyFile, ShiftedFile}
    /\ resources = _load_data(file)
    /\ proc = Idle
    /\ lastCall = [op |-> "__init__", id |-> 0, status |-> <<>>,
                   query |-> <<>>, ok |-> TRUE, res |-> <<>>, wrote |-> FALSE,
                   again |-> FALSE]
    /\ peer = <<>>
    /\ returned = {}

SubmitAdd ==
    \E title \in FormTitles, tags_input \in FormTagInputs,
       concepts_input \in FormConceptInputs, status \in FormStatuses :
        submit_add(title, <<"article">>, <<>>, tags_input, concepts_input,
                   status, <<>>, 7)

NextDashboard == SubmitAdd

SpecDashboard == InitDashboard /\ [][NextDashboard]_vars

\* ============================================================== claims
Ids(rs) == {rs[i]["id"] : i \in 1..Len(rs)}

Graph == build_knowledge_graph(resources)

\* every concept string in some resource's concepts list
StoredConcepts ==
    UNION {Range(get_list(resources[i], "concepts")) : i \in 1..Len(resources)}

\* C1: on a store that started empty, the k-th add returns a resource whose
\* id is k, and the resource at position k of the store has id k.
C1_IdIsInsertionPosition ==
    /\ \A k \in 1..Len(resources) : resources[k]["id"] = k
    /\ lastCall.op = "add_resource" =>
          /\ lastCall.res[1]["id"] = Len(resources)
          /\ lastCall.res[1] = resources[Len(resources)]

C1_Witness ==
    /\ lastCall.op = "add_resource"
    /\ Len(resources) = MaxResources
    /\ lastCall.res[1]["id"] = MaxResources

\* C2: no concept is ever a member of its own adjacency set, also when a
\* concepts list holds the same string more than once.
C2_NoSelfLoop == \A c \in DOMAIN Graph : c \notin Graph[c]

\* C3: the graph is symmetric: if b is related to a then a is related to b.
C3_GraphSymmetric ==
    \A a \in ConceptNames :
        \A b \in get_related_concepts(resources, a) :
            a \in get_related_concepts(resources, b)

C3_Witness ==
    /\ Len(resources) = 2
    /\ <<"y">> \in get_related_concepts(resources, <<"x">>)
    /\ <<"z">> \in get_related_concepts(resources, <<"y">>)
    /\ <<"x">> \notin get_related_concepts(resources, <<"z">>)

\* C4: a new store constructed on the backing file holds a resource sequence
\* equal to the in-memory one in length, order and every field.
C4_RoundTrip == _load_data(file) = resources

C4_Witness ==
    /\ lastCall.op = "__init__"
    /\ Len(resources) = 2
    /\ resources[1]["status"] = completed
    /\ resources[1]["tags"] = PyList(<<<<"A", "\"">>, <<"b">>>>)
    /\ resources[2]["notes"] = <<"\\", "a">>
    /\ resources[1]["date_added"] = <<"5", "9">>
    /\ resources[2]["date_added"] = <<"0", "7">>

\* C5: once a mutating call has completed, the backing file holds exactly the
\* serialization of the whole current in-memory sequence.
C5_FileHoldsStore == file.exists => file.text = json_dump(resources)

C5_Witness ==
    /\ lastCall.op = "update_status"
    /\ lastCall.ok
    /\ lastCall.wrote
    /\ Len(resources) = 2
    /\ resources[2]["status"] = completed

\* C6: an update_status that repeats the successful update_status before it
\* (same id, same status) succeeds too and leaves memory and file as they were.
C6_UpdateStatusIdempotent ==
    [][(lastCall.op = "update_status" /\ lastCall.ok
        /\ lastCall'.op = "update_status" /\ lastCall'.again)
       => (lastCall'.ok /\ resources' = resources /\ file' = file)]_vars

C6_Witness ==
    /\ lastCall.op = "update_status"
    /\ lastCall.again
    /\ lastCall.ok
    /\ lastCall.status = completed
    /\ Len(resources) = 2

\* C7: update_status with an id no resource has reports failure, leaves the
\* in-memory sequence unchanged and does not write the backing file.
C7_NotFoundChangesNothing ==
    [][(lastCall'.op = "update_status" /\ lastCall'.id \notin Ids(resources))
       => (/\ ~lastCall'.ok
           /\ ~lastCall'.wrote
           /\ resources' = resources
           /\ file' = file)]_vars

C7_Witness ==
    /\ lastCall.op = "update_status"
    /\ ~lastCall.ok
    /\ resources = <<>>
    /\ ~file.exists

\* C8: two distinct concepts are adjacent exactly when some single resource's
\* concepts list holds both; co-occurrence is not transitive.
C8_EdgeIffCooccur ==
    \A a \in ConceptNames, b \in ConceptNames :
        a # b =>
            (b \in graph_get(Graph, a)
             <=> \E i \in 1..Len(resources) :
                    {a, b} \subseteq Range(get_list(resources[i], "concepts")))

C8_Witness ==
    /\ Len(resources) = 2
    /\ get_list(resources[1], "concepts") = <<<<"x">>, <<"y">>>>
    /\ get_list(resources[2], "concepts") = <<<<"y">>, <<"z">>>>
    /\ graph_get(Graph, <<"x">>) = {<<"y">>}
    /\ graph_get(Graph, <<"y">>) = {<<"x">>, <<"z">>}

\* C9: the keys of the graph are exactly the concepts with an edge: every key
\* has a non-empty adjacency set, a concept that only appears in lists of
\* length 1 is no key, and a concept that is no key has no related concepts.
C9_KeysAreConceptsWithEdge ==
    /\ \A k \in DOMAIN Graph : Graph[k] # {}
    /\ DOMAIN Graph =
          {c \in StoredConcepts :
              \E i \in 1..Len(resources) :
                  /\ c \in Range(get_list(resources[i], "concepts"))
                  /\ Len(get_list(resources[i], "concepts")) >= 2}
    /\ \A c \in ConceptNames \ DOMAIN Graph :
          get_related_concepts(resources, c) = {}

C9_Witness ==
    /\ Len(resources) = 2
    /\ get_list(resources[1], "concepts") = <<<<"z">>>>
    /\ get_list(resources[2], "concepts") = <<<<"x">>, <<"y">>>>
    /\ DOMAIN Graph = {<<"x">>, <<"y">>}

\* C10: search returns, in store order, exactly the resources whose lower-cased
\* title, notes, some tag or some concept contains the lower-cased query; the
\* url, type, status and id are not searched; the empty query returns all.
SearchExpected(query) ==
    SelectSeq(resources,
        LAMBDA r :
            \E field \in {r["title"], r["notes"]}
                           \cup Range(r["tags"].items)
                           \cup Range(r["concepts"].items) :
                Contains(lower(field), lower(query)))

C10_SearchResult ==
    lastCall.op = "search" =>
        /\ lastCall.res = SearchExpected(lastCall.query)
        /\ lastCall.query = <<>> => lastCall.res = resources

C10_Witness ==
    /\ lastCall.op = "search"
    /\ lastCall.query = <<"u">>
    /\ Len(resources) = 2
    /\ resources[1]["url"] = <<"u">>
    /\ resources[2]["tags"] = PyList(<<<<"k">>, <<"T">>>>)
    /\ lastCall.res = <<>>

\* str.upper(), used to enumerate the spellings of a query
upper(s) ==
    [i \in 1..Len(s) |->
        IF \E n \in 1..26 : LowerCase[n] = s[i]
        THEN UpperCase[CHOOSE n \in 1..26 : LowerCase[n] = s[i]]
        ELSE s[i]]

\* the strings that differ from q in letter case only
CaseVariants(q) ==
    {v \in [1..Len(q) -> Range(q) \cup Range(lower(q)) \cup Range(upper(q))] :
        lower(v) = lower(q)}

\* every query of the input set paired with each of its case variants
CasePairs == UNION {{<<q, v>> : v \in CaseVariants(q)} : q \in Queries}

\* C11: two queries that differ only in letter case give the same result
\* sequence in every store state.
C11_SearchCaseInsensitive ==
    \A p \in CasePairs :
        search_result(resources, p[1]) = search_result(resources, p[2])

C11_Witness ==
    /\ lastCall.op = "search"
    /\ lastCall.query = <<"N">>
    /\ Len(resources) = 2
    /\ resources[2]["notes"] = <<"n", "B">>
    /\ resources[1]["notes"] = <<>>
    /\ lastCall.res = <<resources[2]>>
    /\ search_result(resources, <<"n">>) = lastCall.res

\* the resources at the positions in K, from position k on, in store order
RECURSIVE KeptFrom(_, _)
KeptFrom(k, K) ==
    IF k > Len(resources) THEN <<>>
    ELSE (IF k \in K THEN <<resources[k]>> ELSE <<>>) \o KeptFrom(k + 1, K)

StatusIs(k, status) ==
    "status" \in DOMAIN resources[k] /\ resources[k]["status"] = status.items

SomeTagIs(k, tag) ==
    \E t \in Range(get_list(resources[k], "tags")) : lower(t) = lower(tag.items)

\* C12 as stated: a filter is given when it is not None; the result is, in
\* store order, the resources whose status equals the given status filter and
\* that have a tag equal to the given tag filter ignoring case.
C12_ListExact ==
    lastCall.op = "list_resources" =>
        LET status == lastCall.query[1]
            tag == lastCall.query[2]
            Keep == {k \in 1..Len(resources) :
                        /\ status # None => StatusIs(k, status)
                        /\ tag # None => SomeTagIs(k, tag)}
        IN  lastCall.res = KeptFrom(1, Keep)

\* C12 as amended: a filter is given when it is neither None nor the empty
\* string; an empty-string filter is treated like an absent one.
C12_ListExactNonEmpty ==
    lastCall.op = "list_resources" =>
        LET status == lastCall.query[1]
            tag == lastCall.query[2]
            Given(f) == f # None /\ f.items # <<>>
            Keep == {k \in 1..Len(resources) :
                        /\ Given(status) => StatusIs(k, status)
                        /\ Given(tag) => SomeTagIs(k, tag)}
        IN  /\ lastCall.res = KeptFrom(1, Keep)
            /\ (~Given(status) /\ ~Given(tag)) => lastCall.res = resources
            /\ status = PyStr(archived) => lastCall.res = <<>>

C12_Witness ==
    /\ lastCall.op = "list_resources"
    /\ lastCall.query = <<PyStr(completed), PyStr(<<"a", "B">>)>>
    /\ Len(resources) = 2
    /\ resources[1]["status"] = in_progress
    /\ resources[1]["tags"] = PyList(<<<<"A", "b">>, <<"c">>>>)
    /\ resources[2]["status"] = completed
    /\ resources[2]["tags"] = PyList(<<<<"A", "b">>, <<"c">>>>)
    /\ lastCall.res = <<resources[2]>>

RECURSIVE SumOver(_, _)
SumOver(counter, keys) ==
    IF keys = {} THEN 0
    ELSE LET k == CHOOSE x \in keys : TRUE
         IN  counter[k] + SumOver(counter, keys \ {k})

Positions == 1..Len(resources)

\* C13: statistics reports the store length, per status and per type the
\* number of resources carrying it (a record without the field counting as
\* "unknown", no key with count zero), counts that sum to the length, and the
\* numbers of distinct concepts and distinct tags.
C13_StatisticsCounts ==
    lastCall.op = "get_statistics" =>
        LET st == lastCall.res[1]
            StatusOf(k) == IF "status" \in DOMAIN resources[k]
                           THEN resources[k]["status"] ELSE <<"unknown">>
            TypeOf(k) == IF "type" \in DOMAIN resources[k]
                         THEN resources[k]["type"] ELSE <<"unknown">>
        IN  /\ st.total_resources = Len(resources)
            /\ DOMAIN st.by_status = {StatusOf(k) : k \in Positions}
            /\ \A x \in DOMAIN st.by_status :
                  st.by_status[x] =
                      Cardinality({k \in Positions : StatusOf(k) = x})
            /\ DOMAIN st.by_type = {TypeOf(k) : k \in Positions}
            /\ \A x \in DOMAIN st.by_type :
                  st.by_type[x] = Cardinality({k \in Positions : TypeOf(k) = x})
            /\ SumOver(st.by_status, DOMAIN st.by_status) = Len(resources)
            /\ SumOver(st.by_type, DOMAIN st.by_type) = Len(resources)
            /\ st.unique_concepts = Cardinality(StoredConcepts)
            /\ st.unique_tags =
                  Cardinality(UNION {Range(get_list(resources[k], "tags")) :
                                        k \in Positions})

C13_Witness ==
    /\ lastCall.op = "get_statistics"
    /\ Len(resources) = 2
    /\ "status" \notin DOMAIN resources[1]
    /\ resources[2]["status"] = completed
    /\ resources[2]["concepts"] = PyList(<<<<"x">>, <<"y">>>>)
    /\ lastCall.res[1].by_status[<<"unknown">>] = 1
    /\ lastCall.res[1].by_status[completed] = 1
    /\ lastCall.res[1].by_type[<<"unknown">>] = 1
    /\ lastCall.res[1].unique_concepts = 2
    /\ lastCall.res[1].unique_tags = 1

\* C14: every resource's status is one of in_progress, completed, archived,
\* whatever status arguments update_status was given.
C14_StatusInEnum ==
    \A k \in Positions :
        resources[k]["status"] \in {in_progress, completed, archived}

\* C15: the resource add returns has status in_progress and is the last
\* element of the store; tags and concepts are always lists, never None:
\* the list that was passed, or the empty list when none was passed.
C15_AddNormalizes ==
    /\ lastCall.op = "add_resource" =>
          /\ lastCall.res[1]["status"] = in_progress
          /\ lastCall.res[1] = resources[Len(resources)]
    /\ \A k \in Positions :
          /\ resources[k]["tags"] # None
          /\ resources[k]["concepts"] # None
          /\ resources[k]["tags"] \in {PyList(<<>>)} \cup (TagArgs \ {None})
          /\ resources[k]["concepts"]
                \in {PyList(<<>>)} \cup (ConceptArgs \ {None})

C15_Witness ==
    /\ lastCall.op = "add_resource"
    /\ Len(resources) = 2
    /\ lastCall.res[1]["tags"] = PyList(<<>>)
    /\ lastCall.res[1]["concepts"] = PyList(<<>>)
    /\ resources[1]["status"] = completed
    /\ resources[2]["status"] = in_progress

\* the keys of a resource that no call may change
FrozenKeys == {"id", "title", "type", "url", "tags", "concepts", "notes",
               "date_added"}

\* C16: no step shortens the store, moves a resource or changes a field other
\* than status; a successful update_status changes only the status of the
\* resource with the given id.
C16_AppendOnly ==
    [][/\ Len(resources') >= Len(resources)
       /\ \A k \in Positions :
             \A f \in FrozenKeys : resources'[k][f] = resources[k][f]
       /\ (lastCall'.op = "update_status" /\ lastCall'.ok) =>
             /\ Len(resources') = Len(resources)
             /\ \A k \in Positions :
                   IF resources[k]["id"] = lastCall'.id
                   THEN resources'[k] =
                            [resources[k] EXCEPT !["status"] = lastCall'.status]
                   ELSE resources'[k] = resources[k]]_vars

C16_Witness ==
    /\ lastCall.op = "update_status"
    /\ lastCall.ok
    /\ lastCall.id = 1
    /\ Len(resources) = 2
    /\ resources[1]["status"] = <<"done">>
    /\ resources[2]["status"] = in_progress
    /\ resources[1]["date_added"] = <<"0", "7">>
    /\ resources[2]["date_added"] = <<"5", "9">>

\* C17: from an absent backing file, through add, update_status and reload,
\* no two resources of the store have the same id.
C17_UniqueIds ==
    \A i \in Positions, j \in Positions :
        i # j => resources[i]["id"] # resources[j]["id"]

C17_Witness ==
    /\ lastCall.op = "__init__"
    /\ Len(resources) = MaxResources
    /\ resources[Len(resources)]["status"] = <<"done">>
    /\ Ids(resources) = 1..MaxResources

\* C18: list, search, the graph builder, the related-concepts lookup and the
\* statistics leave the in-memory sequence and the backing file as they were,
\* and the same call made twice in a row returns equal results.
C18_ViewsReadOnly ==
    [][/\ lastCall'.op \in ReadOps =>
             (resources' = resources /\ file' = file)
       /\ (lastCall'.op \in ReadOps /\ lastCall'.again) =>
             lastCall'.res = lastCall.res]_vars

C18_Witness ==
    /\ lastCall.op = "list_resources"
    /\ lastCall.again
    /\ lastCall.query = <<PyStr(completed), None>>
    /\ Len(resources) = 2
    /\ Len(lastCall.res) = 1
    /\ file = _save_data(resources)

\* C19: constructing the store leaves the file as it was; on an absent file
\* the store starts empty and no file appears; on a file that is not valid
\* JSON the constructor raises and there is no store.
C19_Construction ==
    [][lastCall'.op = "__init__" =>
          /\ file' = file
          /\ ~file.exists =>
                /\ lastCall'.ok
                /\ proc'.pc = "idle"
                /\ resources' = <<>>
                /\ ~file'.exists
          /\ file \in CorruptFiles =>
                /\ ~lastCall'.ok
                /\ proc'.pc = "failed"
                /\ resources' = <<>>]_vars

C19_Witness ==
    /\ lastCall.op = "__init__"
    /\ ~lastCall.ok
    /\ proc.pc = "failed"
    /\ file = CutInRecord

\* C20: whenever the process stops, also inside add or update_status, the
\* backing file is the complete file from before the call or the complete
\* file the call writes, and a later load of it succeeds.
C20_NoPartialFile ==
    proc.pc = "stopped" =>
        /\ file \in {proc.before, proc.after}
        /\ file.exists => json_valid(file.text)

\* the record a is the resource b, whatever its status has become since
SameButStatus(a, b) ==
    /\ DOMAIN a = DOMAIN b
    /\ \A f \in DOMAIN a \ {"status"} : a[f] = b[f]

\* C21: with two objects on one backing file, after any interleaving of their
\* add and update_status calls the file holds every resource that an add of
\* either object returned, and no two resources in the file share an id.
C21_InterleavedWriters ==
    LET stored == _load_data(file)
    IN  /\ \A r \in returned :
              \E k \in 1..Len(stored) : SameButStatus(stored[k], r)
        /\ \A i \in 1..Len(stored), j \in 1..Len(stored) :
              i # j => stored[i]["id"] # stored[j]["id"]

\* C22: the dashboard's add (add, then update_status(store length, chosen
\* status)) leaves the chosen status on the resource it has just added and
\* changes the status of no other resource, in every store state, also one
\* loaded from a file whose ids are not the 1-based positions.
C22_FormSetsNewStatus ==
    [][(lastCall'.op = "submit_add" /\ lastCall'.ok) =>
          /\ Len(resources') = Len(resources) + 1
          /\ resources'[Len(resources')]["status"] = lastCall'.status
          /\ \A k \in 1..Len(resources) : resources'[k] = resources[k]]_vars

====
